---- MODULE Spec2Model ----
(***************************************************************************)
(* Model of AuthManager (src/src/auth.ts): the token broker, the account   *)
(* registry, the two-tier credential store and the scope resolver of the   *)
(* ms-365-mcp-server.                                                       *)
(*                                                                         *)
(* The identity provider client (msalApp) is modelled by the ordered list  *)
(* of accounts in its in-memory cache and by the nondeterministic outcome  *)
(* of each network exchange (silent acquisition, device-code exchange).    *)
(* The platform vault (keytar) is a map from key to stored data; every     *)
(* vault call may throw.  The fallback files are a map from path to data.  *)
(* Each public method is one action; the record `call` describes the last  *)
(* call: its arguments, what it returned or threw, and the requests it     *)
(* issued to the provider and to the vault.                                *)
(***************************************************************************)
EXTENDS Integers, Sequences, FiniteSets, TLC

VARIABLES
  phase,              \* "constructed" (before loadTokenCache) or "ready"
  accounts,           \* msalApp.getTokenCache().getAllAccounts(), in order
  accessToken,        \* this.accessToken
  tokenExpiry,        \* this.tokenExpiry
  oauthToken,         \* this.oauthToken
  isOAuthMode,        \* this.isOAuthMode
  selectedAccountId,  \* this.selectedAccountId
  scopes,             \* this.scopes
  vault,              \* keytar entries of SERVICE_NAME, by account name
  files,              \* the fallback files, by path
  endpoints,          \* endpoints.default, the catalog read from endpoints.json
  pending,            \* the calls suspended at an await on the provider
  call                \* the last call and what it did

vars == <<phase, accounts, accessToken, tokenExpiry, oauthToken, isOAuthMode,
          selectedAccountId, scopes, vault, files, endpoints, pending, call>>

----------------------------------------------------------------------------
(* Bounds *)

\* the provider issues MaxTok distinct access tokens per account
MaxTok == 2

----------------------------------------------------------------------------
(* Values *)

\* JavaScript null, for an account id
NULL == "null"
\* the account ids the provider knows (homeAccountId)
AccountIds == {"A", "B"}
\* an id no account has
UnknownId == "X"

\* tokenExpiry === null
NoExpiry == 0
\* the instants the provider's tokens expire at (expiresOn, as getTime())
ExpiresOn == {2}
\* what Date.now() may give when a call reads it: before an expiry, and at it
Clock == {1, 2}

\* an access token: who it was issued for, and which one it is
NoToken == [owner |-> "null", id |-> 0]
\* the empty string given as a token
EmptyToken == [owner |-> "", id |-> 0]
ProviderTokens == [owner : AccountIds, id : 1..MaxTok]
\* tokens supplied from outside (MS365_MCP_OAUTH_TOKEN, setOAuthToken)
InjectedTokens == {EmptyToken, [owner |-> "ext", id |-> 1]}

\* JavaScript truthiness of a string | null
Truthy(t) == t # NoToken /\ t # EmptyToken

TOKEN_CACHE_ACCOUNT == "msal-token-cache"
SELECTED_ACCOUNT_KEY == "selected-account"
FALLBACK_PATH == ".token-cache.json"
SELECTED_ACCOUNT_PATH == ".selected-account.json"

\* stored data: nothing, unreadable bytes, a serialized cache, a pointer
Absent == [kind |-> "absent", accts |-> <<>>, accountId |-> NULL]
Corrupt == [kind |-> "corrupt", accts |-> <<>>, accountId |-> NULL]

\* msalApp.getTokenCache().serialize()
serialize(accts) == [kind |-> "cache", accts |-> accts, accountId |-> NULL]

\* JSON.stringify({ accountId: this.selectedAccountId })
JSONstringify(id) == [kind |-> "json", accts |-> <<>>, accountId |-> id]

\* whether JSON.parse / deserialize accepts the data
Parses(data) == data.kind # "corrupt"

\* `fs` is used at lines 186, 204, 383-388 but the import at line 5 binds
\* only existsSync and readFileSync: evaluating `fs` throws ReferenceError
FsDefined == FALSE

Range(s) == {s[i] : i \in 1..Len(s)}

----------------------------------------------------------------------------
(* ScopeResolver *)

Endpoint(s, w) == [scopes |-> s, requiresWorkAccount |-> w]

\* endpoints.json abridged: per scope family one entry, with two of the
\* families whose read scope the table collapses and two work-account entries
Endpoints ==
  << Endpoint({"Mail.Read"}, FALSE), Endpoint({"Mail.ReadWrite"}, FALSE),
     Endpoint({"Files.Read"}, FALSE), Endpoint({"User.Read"}, FALSE),
     Endpoint({"Chat.Read"}, TRUE), Endpoint({"Sites.Read.All"}, TRUE) >>

SCOPE_HIERARCHY ==
  << [higher |-> "Mail.ReadWrite", lower |-> {"Mail.Read"}],
     [higher |-> "Calendars.ReadWrite", lower |-> {"Calendars.Read"}],
     [higher |-> "Files.ReadWrite", lower |-> {"Files.Read"}],
     [higher |-> "Tasks.ReadWrite", lower |-> {"Tasks.Read"}],
     [higher |-> "Contacts.ReadWrite", lower |-> {"Contacts.Read"}] >>

\* lines 56-64: the union of the scopes of the entries the filter keeps
CollectScopes(catalog, includeWorkAccountScopes) ==
  UNION { catalog[i].scopes :
            i \in { j \in 1..Len(catalog) :
                      ~(catalog[j].requiresWorkAccount /\ ~includeWorkAccountScopes) } }

\* the collapsing step adding the higher scope and keeping the lower ones
RECURSIVE Collapse_keepsLower(_, _, _)
Collapse_keepsLower(hierarchy, k, scopesSet) ==
  IF k > Len(hierarchy) THEN scopesSet
  ELSE LET e == hierarchy[k]
       IN IF e.lower \subseteq scopesSet
            THEN Collapse_keepsLower(hierarchy, k + 1, scopesSet \cup {e.higher})
            ELSE Collapse_keepsLower(hierarchy, k + 1, scopesSet)

\* lines 66-71: the table's entries applied in order, from entry k on
RECURSIVE Collapse(_, _, _)
Collapse(hierarchy, k, scopesSet) ==
  IF k > Len(hierarchy) THEN scopesSet
  ELSE LET e == hierarchy[k]
       IN IF e.lower \subseteq scopesSet
            THEN Collapse(hierarchy, k + 1, (scopesSet \ e.lower) \cup {e.higher})
            ELSE Collapse(hierarchy, k + 1, scopesSet)

buildScopesFromEndpoints(catalog, includeWorkAccountScopes) ==
  Collapse(SCOPE_HIERARCHY, 1, CollectScopes(catalog, includeWorkAccountScopes))

buildAllScopes == buildScopesFromEndpoints(endpoints, TRUE)

\* lines 405-407: the scopes of the entries flagged requiresWorkAccount, in order
RECURSIVE WorkScopesFrom(_, _)
WorkScopesFrom(catalog, k) ==
  IF k > Len(catalog) THEN <<>>
  ELSE IF catalog[k].requiresWorkAccount /\ catalog[k].scopes # {}
         THEN <<CHOOSE s \in catalog[k].scopes : TRUE>> \o WorkScopesFrom(catalog, k + 1)
         ELSE WorkScopesFrom(catalog, k + 1)

----------------------------------------------------------------------------
(* The record of a call *)

NoResponse == [ok |-> FALSE, accessToken |-> NoToken, expiresOn |-> NoExpiry,
               account |-> NULL]

Idle(op) ==
  [op |-> op, arg |-> NULL, force |-> FALSE, include |-> FALSE, now |-> 0,
   ret |-> "void", err |-> "",
   token |-> NoToken, silent |-> <<>>, device |-> <<>>, resp |-> NoResponse,
   reads |-> <<>>, writes |-> <<>>]

\* a request to the provider: acquireTokenSilent / acquireTokenByDeviceCode
Request(account, s) == [account |-> account, scopes |-> s]

\* a load: whether keytar answered, whether the file was read, what was loaded
Read(key, ok, file, data) == [key |-> key, ok |-> ok, file |-> file, data |-> data]

\* a vault write and whether keytar accepted it
Write(key, data, ok) == [key |-> key, data |-> data, ok |-> ok]

----------------------------------------------------------------------------
(* CredentialStore *)

\* keytar.getPassword inside its try: a throw leaves the data undefined
keytarGetPassword(key, ok) == IF ok THEN vault[key] ELSE Absent

\* the load taking the file whenever there is one
LoadData_fileFirst(key, path, ok) ==
  IF files[path].kind # "absent" THEN files[path] ELSE keytarGetPassword(key, ok)

\* lines 121-133 and 151-163: the vault first, the file only when the vault
\* gave nothing
LoadData(key, path, ok) ==
  LET cachedData == keytarGetPassword(key, ok)
  IN IF cachedData.kind # "absent" THEN cachedData ELSE files[path]

\* lines 131 and 161: `!cacheData && existsSync(path)`, the file is read
ReadsFile(key, path, ok) ==
  keytarGetPassword(key, ok).kind = "absent" /\ files[path].kind # "absent"

\* fs.writeFileSync(path, data)
writeFileSync(f, path, data) == IF FsDefined THEN [f EXCEPT ![path] = data] ELSE f

\* the persisted state as a save finds and leaves it
Store == [vault |-> vault, files |-> files, writes |-> <<>>]

\* lines 179-187 and 197-205: keytar.setPassword, and the file when it throws
SaveData(st, key, path, data, ok) ==
  [vault  |-> IF ok THEN [st.vault EXCEPT ![key] = data] ELSE st.vault,
   files  |-> IF ok THEN st.files ELSE writeFileSync(st.files, path, data),
   writes |-> Append(st.writes, Write(key, data, ok))]

saveTokenCache(st, accts, ok) ==
  SaveData(st, TOKEN_CACHE_ACCOUNT, FALLBACK_PATH, serialize(accts), ok)

saveSelectedAccount(st, id, ok) ==
  SaveData(st, SELECTED_ACCOUNT_KEY, SELECTED_ACCOUNT_PATH, JSONstringify(id), ok)

\* line 136: deserialize(cacheData) on a provider cache listing accts
Deserialize(cacheData, accts) ==
  IF cacheData.kind = "cache" THEN cacheData.accts ELSE accts

\* lines 135-140 and 165-172 on an instance whose pointer is id
ParsePointer(cacheData, selectedAccountData, id) ==
  IF cacheData.kind # "absent" /\ ~Parses(cacheData) THEN id
  ELSE IF selectedAccountData.kind = "json" THEN selectedAccountData.accountId
  ELSE id

\* line 135-137: deserialize replaces the in-memory cache by the blob's
LoadedAccounts(cacheData) == Deserialize(cacheData, accounts)

\* lines 135-140 and 165-172: a deserialize that throws skips
\* loadSelectedAccount; a pointer that does not parse is dropped
LoadedSelection(cacheData, selectedAccountData) ==
  ParsePointer(cacheData, selectedAccountData, selectedAccountId)

----------------------------------------------------------------------------
(* The provider's answers *)

Response(t, e) == [ok |-> TRUE, accessToken |-> t, expiresOn |-> e, account |-> t.owner]

\* msalApp.acquireTokenSilent({account, scopes}): throws, or a token for account
SilentOutcomes(account) ==
  {NoResponse} \cup
  { Response(t, e) : t \in {u \in ProviderTokens : u.owner = account}, e \in ExpiresOn }

\* msalApp.acquireTokenByDeviceCode: throws, or the token of whoever signed in
DeviceCodeOutcomes ==
  {NoResponse} \cup { Response(t, e) : t \in ProviderTokens, e \in ExpiresOn }

\* the provider caches the account that signed in
AddAccount(accts, id) == IF id \in Range(accts) THEN accts ELSE Append(accts, id)

\* msalApp.getTokenCache().removeAccount(account)
DropAccount(accts, id) == SelectSeq(accts, LAMBDA a : a # id)

----------------------------------------------------------------------------
(* AccountRegistry and TokenBroker: the decisions *)

\* getCurrentAccount without the fallback to the first listed account
getCurrentAccount_noFallback ==
  IF selectedAccountId # NULL /\ selectedAccountId \in Range(accounts)
    THEN selectedAccountId
    ELSE NULL

\* getCurrentAccount trusting the pointer without looking it up in the list
getCurrentAccount_unchecked ==
  IF selectedAccountId # NULL THEN selectedAccountId
  ELSE IF Len(accounts) = 0 THEN NULL
  ELSE accounts[1]

\* lines 247-269
getCurrentAccount ==
  IF Len(accounts) = 0 THEN NULL
  ELSE IF selectedAccountId # NULL /\ selectedAccountId \in Range(accounts)
         THEN selectedAccountId
         ELSE accounts[1]

\* line 217
InPassthrough == isOAuthMode /\ Truthy(oauthToken)

\* line 221, up to the reading of the clock
ReadsClock == Truthy(accessToken) /\ tokenExpiry # NoExpiry

\* line 221, with dateNow what Date.now() gave
CachedTokenUsable(forceRefresh, dateNow) ==
  /\ Truthy(accessToken)
  /\ tokenExpiry # NoExpiry
  /\ tokenExpiry > dateNow
  /\ ~forceRefresh

\* the lookup taking every id for a listed one
FindAccount_unchecked(accountId) == accountId

\* lines 478 and 520: accounts.find(acc => acc.homeAccountId === accountId)
FindAccount(accountId) == IF accountId \in Range(accounts) THEN accountId ELSE NULL

----------------------------------------------------------------------------
(* Construction and initialization *)

\* process.env.MS365_MCP_OAUTH_TOKEN: undefined, or a string
EnvTokens == {NoToken} \cup InjectedTokens

\* what the fallback files hold when the process starts
InitFiles ==
  { [p \in {FALLBACK_PATH, SELECTED_ACCOUNT_PATH} |-> Absent] }

\* lines 99-114
Constructed(oauthTokenFromEnv) ==
  /\ phase' = "constructed"
  /\ accounts' = <<>>
  /\ accessToken' = NoToken
  /\ tokenExpiry' = NoExpiry
  /\ selectedAccountId' = NULL
  /\ scopes' = buildScopesFromEndpoints(endpoints, FALSE)
  /\ oauthToken' = oauthTokenFromEnv
  /\ isOAuthMode' = (oauthTokenFromEnv # NoToken)

Init ==
  /\ phase = "constructed"
  /\ accounts = <<>>
  /\ accessToken = NoToken
  /\ tokenExpiry = NoExpiry
  /\ selectedAccountId = NULL
  /\ endpoints = Endpoints
  /\ pending = <<>>
  /\ scopes = buildScopesFromEndpoints(endpoints, FALSE)
  /\ \E oauthTokenFromEnv \in EnvTokens :
       /\ oauthToken = oauthTokenFromEnv
       /\ isOAuthMode = (oauthTokenFromEnv # NoToken)
  /\ vault = [k \in {TOKEN_CACHE_ACCOUNT, SELECTED_ACCOUNT_KEY} |-> Absent]
  /\ files \in InitFiles
  /\ call = Idle("constructor")

\* the process ends and a new one constructs its AuthManager
Construct ==
  /\ \E oauthTokenFromEnv \in EnvTokens : Constructed(oauthTokenFromEnv)
  /\ call' = Idle("constructor")
  /\ UNCHANGED <<endpoints, pending, vault, files>>

\* lines 116-173
LoadTokenCache ==
  /\ phase = "constructed"
  /\ \E okCache \in BOOLEAN, okSelected \in BOOLEAN :
       LET cacheData == LoadData(TOKEN_CACHE_ACCOUNT, FALLBACK_PATH, okCache)
           selectedAccountData ==
             LoadData(SELECTED_ACCOUNT_KEY, SELECTED_ACCOUNT_PATH, okSelected)
           readCache ==
             Read(TOKEN_CACHE_ACCOUNT, okCache,
                  ReadsFile(TOKEN_CACHE_ACCOUNT, FALLBACK_PATH, okCache), cacheData)
           readSelected ==
             Read(SELECTED_ACCOUNT_KEY, okSelected,
                  ReadsFile(SELECTED_ACCOUNT_KEY, SELECTED_ACCOUNT_PATH, okSelected),
                  selectedAccountData)
       IN /\ accounts' = LoadedAccounts(cacheData)
          /\ selectedAccountId' = LoadedSelection(cacheData, selectedAccountData)
          /\ call' = [Idle("loadTokenCache") EXCEPT
                        !.reads = IF cacheData.kind # "absent" /\ ~Parses(cacheData)
                                    THEN <<readCache>>
                                    ELSE <<readCache, readSelected>>]
  /\ phase' = "ready"
  /\ UNCHANGED <<endpoints, pending, accessToken, tokenExpiry, oauthToken, isOAuthMode, scopes,
                 vault, files>>

----------------------------------------------------------------------------
(* TokenBroker *)

\* lines 211-214
SetOAuthToken(token) ==
  /\ phase = "ready"
  /\ oauthToken' = token
  /\ isOAuthMode' = TRUE
  /\ call' = [Idle("setOAuthToken") EXCEPT !.token = token]
  /\ UNCHANGED <<endpoints, pending, phase, accounts, accessToken, tokenExpiry, selectedAccountId,
                 scopes, vault, files>>

\* lines 235-237: the response is cached and its token returned
SilentSucceeded(e, response) ==
  /\ accessToken' = response.accessToken
  /\ tokenExpiry' = response.expiresOn
  /\ call' = [e EXCEPT !.ret = "token", !.token = response.accessToken]

\* the failure handler dropping the cached token
SilentFailed_clears(e) ==
  /\ call' = [e EXCEPT !.ret = "throw", !.err = "Silent token acquisition failed"]
  /\ accessToken' = NoToken
  /\ tokenExpiry' = NoExpiry

\* lines 238-241: the failure is logged and raised, once
SilentFailed(e) ==
  /\ call' = [e EXCEPT !.ret = "throw", !.err = "Silent token acquisition failed"]
  /\ UNCHANGED <<accessToken, tokenExpiry>>

\* lines 216-245
GetToken(forceRefresh) ==
  /\ phase = "ready"
  /\ LET c == [Idle("getToken") EXCEPT !.force = forceRefresh]
         currentAccount == getCurrentAccount
     IN IF InPassthrough
          THEN /\ call' = [c EXCEPT !.ret = "token", !.token = oauthToken]
               /\ UNCHANGED <<accessToken, tokenExpiry>>
          ELSE \E dateNow \in IF ReadsClock THEN Clock ELSE {0} :
                 LET d == [c EXCEPT !.now = dateNow]
                 IN IF CachedTokenUsable(forceRefresh, dateNow)
                      THEN /\ call' = [d EXCEPT !.ret = "token", !.token = accessToken]
                           /\ UNCHANGED <<accessToken, tokenExpiry>>
                    ELSE IF currentAccount # NULL
                      THEN \E response \in SilentOutcomes(currentAccount) :
                             LET e == [d EXCEPT
                                         !.silent = <<Request(currentAccount, scopes)>>,
                                         !.resp = response]
                             IN IF response.ok THEN SilentSucceeded(e, response)
                                               ELSE SilentFailed(e)
                    ELSE /\ call' = [d EXCEPT !.ret = "throw",
                                              !.err = "No valid token found"]
                         /\ UNCHANGED <<accessToken, tokenExpiry>>
  /\ UNCHANGED <<endpoints, pending, phase, accounts, oauthToken, isOAuthMode, selectedAccountId,
                 scopes, vault, files>>

\* the handler of a failed exchange dropping the cached token
ExchangeFailed_clears(c) ==
  /\ call' = c
  /\ accessToken' = NoToken
  /\ tokenExpiry' = NoExpiry
  /\ UNCHANGED <<accounts, selectedAccountId, vault, files>>

\* lines 303-306 and 465-468: msalApp.acquireTokenByDeviceCode threw, so no
\* assignment and no save was reached
ExchangeFailed(c) ==
  /\ call' = c
  /\ UNCHANGED <<accounts, accessToken, tokenExpiry, selectedAccountId, vault, files>>

\* the login selecting whoever signed in, whatever was selected
AutoSelects_always(response) == response.account # NULL

\* line 295: whether the login selects the account that signed in
AutoSelects(response) == selectedAccountId = NULL /\ response.account # NULL

\* lines 289-302: the exchange succeeded
LoginSucceeded(c, response) ==
  LET accts == AddAccount(accounts, response.account)
      autoSelect == AutoSelects(response)
      selected == IF autoSelect THEN response.account ELSE selectedAccountId
  IN \E okSelected \in IF autoSelect THEN BOOLEAN ELSE {TRUE},
        okCache \in BOOLEAN :
       LET st1 == IF autoSelect
                    THEN saveSelectedAccount(Store, selected, okSelected)
                    ELSE Store
           st2 == saveTokenCache(st1, accts, okCache)
       IN /\ accounts' = accts
          /\ accessToken' = response.accessToken
          /\ tokenExpiry' = response.expiresOn
          /\ selectedAccountId' = selected
          /\ vault' = st2.vault
          /\ files' = st2.files
          /\ call' = [c EXCEPT !.ret = "token",
                               !.token = response.accessToken,
                               !.writes = st2.writes]

\* lines 303-306
LoginFailed(c) ==
  ExchangeFailed([c EXCEPT !.ret = "throw", !.err = "device code flow failed"])

\* lines 271-307
AcquireTokenByDeviceCode ==
  /\ phase = "ready"
  /\ \E response \in DeviceCodeOutcomes :
       LET c == [Idle("acquireTokenByDeviceCode") EXCEPT
                   !.device = <<Request(NULL, scopes)>>, !.resp = response]
       IN IF ~response.ok THEN LoginFailed(c) ELSE LoginSucceeded(c, response)
  /\ UNCHANGED <<endpoints, pending, phase, oauthToken, isOAuthMode, scopes>>

\* keytar.deletePassword
keytarDeletePassword(v, key) == [v EXCEPT ![key] = Absent]

\* fs.unlinkSync, after fs.existsSync
unlinkSync(f, path) == [f EXCEPT ![path] = Absent]

\* lines 376-381: the second deletion is not reached when the first throws
VaultDeletions(okCache, okSelected) ==
  IF ~okCache THEN <<Write(TOKEN_CACHE_ACCOUNT, Absent, FALSE)>>
  ELSE <<Write(TOKEN_CACHE_ACCOUNT, Absent, TRUE),
         Write(SELECTED_ACCOUNT_KEY, Absent, okSelected)>>

\* lines 366-396
Logout ==
  /\ phase = "ready"
  /\ accounts' = <<>>
  /\ accessToken' = NoToken
  /\ tokenExpiry' = NoExpiry
  /\ selectedAccountId' = NULL
  /\ \E okCache \in BOOLEAN, okSelected \in BOOLEAN :
       LET deletions == VaultDeletions(okCache, okSelected)
           c == [Idle("logout") EXCEPT !.writes = deletions]
       IN /\ vault' = [k \in DOMAIN vault |->
                         IF \E i \in 1..Len(deletions) :
                              deletions[i].key = k /\ deletions[i].ok
                           THEN keytarDeletePassword(vault, k)[k]
                           ELSE vault[k]]
          /\ IF FsDefined
               THEN /\ files' = unlinkSync(unlinkSync(files, FALLBACK_PATH),
                                           SELECTED_ACCOUNT_PATH)
                    /\ call' = [c EXCEPT !.ret = "true"]
               ELSE /\ files' = files
                    /\ call' = [c EXCEPT !.ret = "throw",
                                         !.err = "fs is not defined"]
  /\ UNCHANGED <<endpoints, pending, phase, oauthToken, isOAuthMode, scopes>>

----------------------------------------------------------------------------
(* WorkAccountScopeExpander *)

\* the probe asking for every work-account scope
ProbeScopes_all == Range(WorkScopesFrom(endpoints, 1))

\* lines 405-411: workScopes.slice(0, 1)
ProbeScopes == LET workScopes == WorkScopesFrom(endpoints, 1)
               IN IF Len(workScopes) = 0 THEN {} ELSE {workScopes[1]}

\* lines 398-422
HasWorkAccountPermissions ==
  /\ phase = "ready"
  /\ LET currentAccount == getCurrentAccount
         c == Idle("hasWorkAccountPermissions")
     IN IF currentAccount = NULL
          THEN call' = [c EXCEPT !.ret = "false"]
          ELSE \E response \in SilentOutcomes(currentAccount) :
                 call' = [c EXCEPT
                            !.silent = <<Request(currentAccount, ProbeScopes)>>,
                            !.resp = response,
                            !.ret = IF response.ok THEN "true" ELSE "false"]
  /\ UNCHANGED <<endpoints, pending, phase, accounts, accessToken, tokenExpiry, oauthToken,
                 isOAuthMode, selectedAccountId, scopes, vault, files>>

\* lines 450-464: the exchange succeeded; allScopes is what was requested
ExpansionSucceeded(c, response, allScopes) ==
  \E okSelected \in BOOLEAN, okCache \in BOOLEAN :
    LET accts == AddAccount(accounts, response.account)
        st1 == saveSelectedAccount(Store, response.account, okSelected)
        st2 == saveTokenCache(st1, accts, okCache)
    IN /\ accounts' = accts
       /\ accessToken' = response.accessToken
       /\ tokenExpiry' = response.expiresOn
       /\ scopes' = allScopes
       /\ selectedAccountId' = response.account
       /\ vault' = st2.vault
       /\ files' = st2.files
       /\ call' = [c EXCEPT !.ret = "true", !.writes = st2.writes]

\* lines 465-468
ExpansionFailed(c) ==
  /\ ExchangeFailed([c EXCEPT !.ret = "false"])
  /\ UNCHANGED scopes

\* lines 424-469
ExpandToWorkAccountScopes ==
  /\ phase = "ready"
  /\ \E response \in DeviceCodeOutcomes :
       LET allScopes == buildAllScopes
           c == [Idle("expandToWorkAccountScopes") EXCEPT
                   !.device = <<Request(NULL, allScopes)>>, !.resp = response]
       IN IF ~response.ok THEN ExpansionFailed(c)
                          ELSE ExpansionSucceeded(c, response, allScopes)
  /\ UNCHANGED <<endpoints, pending, phase, oauthToken, isOAuthMode>>

----------------------------------------------------------------------------
(* AccountRegistry *)

\* selectAccount giving up, with nothing changed, when its save fails
SelectFound_failsWithSave(c, accountId, ok) ==
  IF ok
    THEN LET st == saveSelectedAccount(Store, accountId, ok)
         IN /\ selectedAccountId' = accountId
            /\ vault' = st.vault
            /\ files' = st.files
            /\ accessToken' = NoToken
            /\ tokenExpiry' = NoExpiry
            /\ call' = [c EXCEPT !.ret = "true", !.writes = st.writes]
    ELSE /\ call' = [c EXCEPT !.ret = "throw", !.err = "save failed",
                              !.writes = <<Write(SELECTED_ACCOUNT_KEY,
                                                 JSONstringify(accountId), FALSE)>>]
         /\ UNCHANGED <<selectedAccountId, vault, files, accessToken, tokenExpiry>>

\* selectAccount without lines 489-490: the cached token is kept
SelectFound_keepsToken(c, accountId, ok) ==
  LET st == saveSelectedAccount(Store, accountId, ok)
  IN /\ selectedAccountId' = accountId
     /\ vault' = st.vault
     /\ files' = st.files
     /\ UNCHANGED <<accessToken, tokenExpiry>>
     /\ call' = [c EXCEPT !.ret = "true", !.writes = st.writes]

\* lines 485-493: the pointer is set and saved, the cached token dropped
SelectFound(c, accountId, ok) ==
  LET st == saveSelectedAccount(Store, accountId, ok)
  IN /\ selectedAccountId' = accountId
     /\ vault' = st.vault
     /\ files' = st.files
     /\ accessToken' = NoToken
     /\ tokenExpiry' = NoExpiry
     /\ call' = [c EXCEPT !.ret = "true", !.writes = st.writes]

\* lines 476-494
SelectAccount(accountId) ==
  /\ phase = "ready"
  /\ LET c == [Idle("selectAccount") EXCEPT !.arg = accountId]
     IN IF FindAccount(accountId) = NULL
          THEN /\ call' = [c EXCEPT !.ret = "false"]
               /\ UNCHANGED <<selectedAccountId, accessToken, tokenExpiry, vault, files>>
          ELSE \E ok \in BOOLEAN : SelectFound(c, accountId, ok)
  /\ UNCHANGED <<endpoints, pending, phase, accounts, oauthToken, isOAuthMode, scopes>>

\* the removal never clearing the selection
RemovalClears_never(accountId) == FALSE

\* line 531: whether the removal clears the selection and the token
RemovalClears(accountId) == selectedAccountId = accountId

\* lines 518-544
RemoveAccount(accountId) ==
  /\ phase = "ready"
  /\ LET c == [Idle("removeAccount") EXCEPT !.arg = accountId]
     IN IF FindAccount(accountId) = NULL
          THEN /\ call' = [c EXCEPT !.ret = "false"]
               /\ UNCHANGED <<accounts, selectedAccountId, accessToken,
                              tokenExpiry, vault, files>>
          ELSE /\ accounts' = DropAccount(accounts, accountId)
               /\ IF RemovalClears(accountId)
                    THEN \E ok \in BOOLEAN :
                           LET st == saveSelectedAccount(Store, NULL, ok)
                           IN /\ selectedAccountId' = NULL
                              /\ vault' = st.vault
                              /\ files' = st.files
                              /\ accessToken' = NoToken
                              /\ tokenExpiry' = NoExpiry
                              /\ call' = [c EXCEPT !.ret = "true",
                                                   !.writes = st.writes]
                    ELSE /\ call' = [c EXCEPT !.ret = "true"]
                         /\ UNCHANGED <<selectedAccountId, accessToken,
                                        tokenExpiry, vault, files>>
  /\ UNCHANGED <<endpoints, pending, phase, oauthToken, isOAuthMode, scopes>>

----------------------------------------------------------------------------
(* The specification *)

Next ==
  \/ Construct
  \/ LoadTokenCache
  \/ \E token \in InjectedTokens : SetOAuthToken(token)
  \/ \E forceRefresh \in BOOLEAN : GetToken(forceRefresh)
  \/ AcquireTokenByDeviceCode
  \/ Logout
  \/ HasWorkAccountPermissions
  \/ ExpandToWorkAccountScopes
  \/ \E accountId \in AccountIds \cup {UnknownId} : SelectAccount(accountId)
  \/ \E accountId \in AccountIds \cup {UnknownId} : RemoveAccount(accountId)

Spec == Init /\ [][Next]_vars

TypeOK ==
  /\ phase \in {"constructed", "ready"}
  /\ Range(accounts) \subseteq AccountIds
  /\ Len(accounts) = Cardinality(Range(accounts))
  /\ accessToken \in ProviderTokens \cup {NoToken}
  /\ tokenExpiry \in ExpiresOn \cup {NoExpiry}
  /\ oauthToken \in EnvTokens
  /\ isOAuthMode \in BOOLEAN
  /\ selectedAccountId \in AccountIds \cup {NULL}

----------------------------------------------------------------------------
(* The scope resolver over every small catalog *)

\* the entries a catalog has at most
MaxEntries == 2

\* scope names: a lower and its higher scope of the table, a lower scope
\* alone, and a scope outside the table
ScopeNames == {"Mail.Read", "Mail.ReadWrite", "Files.Read", "Chat.Read"}

\* lines 9-15: an entry has any scopes, or none, and is flagged or not
Entries == { Endpoint(s, w) : s \in SUBSET ScopeNames, w \in BOOLEAN }

Catalogs == UNION { [1..n -> Entries] : n \in 0..MaxEntries }

\* the module is loaded with some catalog and no AuthManager exists yet
ScopeInit ==
  /\ phase = "module"
  /\ endpoints \in Catalogs
  /\ pending = <<>>
  /\ accounts = <<>>
  /\ accessToken = NoToken
  /\ tokenExpiry = NoExpiry
  /\ selectedAccountId = NULL
  /\ scopes = {}
  /\ oauthToken = NoToken
  /\ isOAuthMode = FALSE
  /\ vault = [k \in {TOKEN_CACHE_ACCOUNT, SELECTED_ACCOUNT_KEY} |-> Absent]
  /\ files \in InitFiles
  /\ call = Idle("import")

\* lines 53-78: buildScopesFromEndpoints() and buildAllScopes() are called
BuildScopesFromEndpoints(includeWorkAccountScopes) ==
  /\ phase = "module"
  /\ scopes' = buildScopesFromEndpoints(endpoints, includeWorkAccountScopes)
  /\ call' = [Idle("buildScopesFromEndpoints") EXCEPT
                !.include = includeWorkAccountScopes]
  /\ UNCHANGED <<endpoints, pending, phase, accounts, accessToken, tokenExpiry,
                 oauthToken, isOAuthMode, selectedAccountId, vault, files>>

ScopeNext ==
  \E includeWorkAccountScopes \in BOOLEAN :
    BuildScopesFromEndpoints(includeWorkAccountScopes)

ScopeSpec == ScopeInit /\ [][ScopeNext]_vars

----------------------------------------------------------------------------
(* The calls as coroutines: each suspends at its await on the provider *)

\* the calls that may be suspended at once
MaxPending == 2

\* a call suspended at `await this.msalApp.acquire...(request)`; once the
\* provider has settled the promise, resp is what it settled with
Suspended(op, request) ==
  [op |-> op, request |-> request, settled |-> FALSE, resp |-> NoResponse]

\* the calls joining a request that is already in flight
SuspendOn_singleFlight(op, request) ==
  IF \E i \in 1..Len(pending) : pending[i].op = op /\ pending[i].request = request
    THEN pending
    ELSE Append(pending, Suspended(op, request))

\* lines 234, 288, 449: every call awaits a promise of its own
SuspendOn(op, request) == Append(pending, Suspended(op, request))

DropPending(i) == SubSeq(pending, 1, i - 1) \o SubSeq(pending, i + 1, Len(pending))

\* lines 216-234: getToken up to its await on acquireTokenSilent
GetTokenCall(forceRefresh) ==
  /\ phase = "ready"
  /\ Len(pending) < MaxPending
  /\ LET c == [Idle("getToken") EXCEPT !.force = forceRefresh]
         currentAccount == getCurrentAccount
     IN IF InPassthrough
          THEN /\ call' = [c EXCEPT !.ret = "token", !.token = oauthToken]
               /\ UNCHANGED pending
          ELSE \E dateNow \in IF ReadsClock THEN Clock ELSE {0} :
                 LET d == [c EXCEPT !.now = dateNow]
                 IN IF CachedTokenUsable(forceRefresh, dateNow)
                      THEN /\ call' = [d EXCEPT !.ret = "token", !.token = accessToken]
                           /\ UNCHANGED pending
                    ELSE IF currentAccount # NULL
                      THEN LET silentRequest == Request(currentAccount, scopes)
                           IN /\ pending' = SuspendOn("getToken", silentRequest)
                              /\ call' = [d EXCEPT !.ret = "pending",
                                                   !.silent = <<silentRequest>>]
                    ELSE /\ call' = [d EXCEPT !.ret = "throw",
                                              !.err = "No valid token found"]
                         /\ UNCHANGED pending
  /\ UNCHANGED <<endpoints, phase, accounts, accessToken, tokenExpiry, oauthToken,
                 isOAuthMode, selectedAccountId, scopes, vault, files>>

\* lines 271-288 and 424-449: the device-code calls up to their await on
\* acquireTokenByDeviceCode
DeviceCodeCall(op) ==
  /\ phase = "ready"
  /\ Len(pending) < MaxPending
  /\ LET deviceCodeRequest ==
           Request(NULL, IF op = "expandToWorkAccountScopes" THEN buildAllScopes
                                                             ELSE scopes)
     IN /\ pending' = SuspendOn(op, deviceCodeRequest)
        /\ call' = [Idle(op) EXCEPT !.ret = "pending",
                                    !.device = <<deviceCodeRequest>>]
  /\ UNCHANGED <<endpoints, phase, accounts, accessToken, tokenExpiry, oauthToken,
                 isOAuthMode, selectedAccountId, scopes, vault, files>>

\* the provider settles the promise of the i-th suspended call
ProviderSettles(i) ==
  /\ i \in 1..Len(pending)
  /\ ~pending[i].settled
  /\ \E response \in IF pending[i].op = "getToken"
                        THEN SilentOutcomes(pending[i].request.account)
                        ELSE DeviceCodeOutcomes :
       pending' = [pending EXCEPT ![i].settled = TRUE, ![i].resp = response]
  /\ call' = Idle("provider")
  /\ UNCHANGED <<endpoints, phase, accounts, accessToken, tokenExpiry, oauthToken,
                 isOAuthMode, selectedAccountId, scopes, vault, files>>

\* lines 235-241, 289-306, 450-468: the i-th suspended call resumes after
\* its await
Resume(i) ==
  /\ i \in 1..Len(pending)
  /\ pending[i].settled
  /\ pending' = DropPending(i)
  /\ LET op == pending[i].op
         response == pending[i].resp
         c == [Idle(op) EXCEPT !.resp = response]
     IN IF op = "getToken"
          THEN LET e == [c EXCEPT !.silent = <<pending[i].request>>]
               IN /\ IF response.ok THEN SilentSucceeded(e, response)
                                     ELSE SilentFailed(e)
                  /\ UNCHANGED <<accounts, selectedAccountId, scopes, vault, files>>
        ELSE IF op = "acquireTokenByDeviceCode"
          THEN LET e == [c EXCEPT !.device = <<pending[i].request>>]
               IN /\ IF response.ok THEN LoginSucceeded(e, response)
                                     ELSE LoginFailed(e)
                  /\ UNCHANGED scopes
        ELSE LET e == [c EXCEPT !.device = <<pending[i].request>>]
             IN IF response.ok
                  THEN ExpansionSucceeded(e, response, pending[i].request.scopes)
                  ELSE ExpansionFailed(e)
  /\ UNCHANGED <<endpoints, phase, oauthToken, isOAuthMode>>

AsyncNext ==
  \/ LoadTokenCache
  \/ \E forceRefresh \in BOOLEAN : GetTokenCall(forceRefresh)
  \/ \E op \in {"acquireTokenByDeviceCode", "expandToWorkAccountScopes"} :
       DeviceCodeCall(op)
  \/ \E i \in 1..MaxPending : ProviderSettles(i)
  \/ \E i \in 1..MaxPending : Resume(i)

\* an instance constructed without MS365_MCP_OAUTH_TOKEN
AsyncInit == Init /\ oauthToken = NoToken

\* concurrent getToken calls, the logins between them taken whole
RefreshNext ==
  \/ LoadTokenCache
  \/ AcquireTokenByDeviceCode
  \/ \E forceRefresh \in BOOLEAN : GetTokenCall(forceRefresh)
  \/ \E i \in 1..MaxPending : ProviderSettles(i)
  \/ \E i \in 1..MaxPending : Resume(i)

RefreshSpec == AsyncInit /\ [][RefreshNext]_vars

\* one getToken call at a time, overlapping with changes of the registry
RaceNext ==
  \/ LoadTokenCache
  \/ AcquireTokenByDeviceCode
  \/ \E forceRefresh \in BOOLEAN : pending = <<>> /\ GetTokenCall(forceRefresh)
  \/ ProviderSettles(1)
  \/ Resume(1)
  \/ \E accountId \in AccountIds : SelectAccount(accountId)
  \/ \E accountId \in AccountIds : RemoveAccount(accountId)

RaceSpec == AsyncInit /\ [][RaceNext]_vars

\* the event loop runs the continuation of every settled promise; nothing
\* in the code bounds the time the provider takes to settle one
AsyncLiveSpec ==
  AsyncInit /\ [][AsyncNext]_vars /\ \A i \in 1..MaxPending : WF_vars(Resume(i))

----------------------------------------------------------------------------
(* The credential store over every content of the vault and of the files *)

\* what a token-cache record may hold when the process starts
StoredBlobs == {Absent, Corrupt, serialize(<<"A">>), serialize(<<"A", "B">>)}

\* what a selected-account record may hold when the process starts
StoredPointers ==
  {Absent, Corrupt, JSONstringify("A"), JSONstringify("B"), JSONstringify(NULL)}

\* an instance constructed over records left by earlier processes
StoreInit ==
  /\ phase = "constructed"
  /\ endpoints = Endpoints
  /\ pending = <<>>
  /\ accounts = <<>>
  /\ accessToken = NoToken
  /\ tokenExpiry = NoExpiry
  /\ selectedAccountId = NULL
  /\ scopes = buildScopesFromEndpoints(endpoints, FALSE)
  /\ oauthToken = NoToken
  /\ isOAuthMode = FALSE
  /\ \E blob \in StoredBlobs, pointer \in StoredPointers :
       vault = (TOKEN_CACHE_ACCOUNT :> blob) @@ (SELECTED_ACCOUNT_KEY :> pointer)
  /\ \E blob \in StoredBlobs, pointer \in StoredPointers :
       files = (FALLBACK_PATH :> blob) @@ (SELECTED_ACCOUNT_PATH :> pointer)
  /\ call = Idle("constructor")

StoreNext ==
  \/ LoadTokenCache
  \/ \E accountId \in AccountIds \cup {UnknownId} : SelectAccount(accountId)
  \/ \E accountId \in AccountIds \cup {UnknownId} : RemoveAccount(accountId)

StoreSpec == StoreInit /\ [][StoreNext]_vars

----------------------------------------------------------------------------
(* Restarts: what a new process finds of what the old one did *)

\* the process ends; a new one constructs its AuthManager (lines 99-114) and
\* initializes it with loadTokenCache (lines 116-173)
Restart ==
  /\ phase = "ready"
  /\ \E oauthTokenFromEnv \in EnvTokens, okCache \in BOOLEAN, okSelected \in BOOLEAN :
       LET cacheData == LoadData(TOKEN_CACHE_ACCOUNT, FALLBACK_PATH, okCache)
           selectedAccountData ==
             LoadData(SELECTED_ACCOUNT_KEY, SELECTED_ACCOUNT_PATH, okSelected)
           readCache ==
             Read(TOKEN_CACHE_ACCOUNT, okCache,
                  ReadsFile(TOKEN_CACHE_ACCOUNT, FALLBACK_PATH, okCache), cacheData)
           readSelected ==
             Read(SELECTED_ACCOUNT_KEY, okSelected,
                  ReadsFile(SELECTED_ACCOUNT_KEY, SELECTED_ACCOUNT_PATH, okSelected),
                  selectedAccountData)
       IN /\ accounts' = Deserialize(cacheData, <<>>)
          /\ selectedAccountId' = ParsePointer(cacheData, selectedAccountData, NULL)
          /\ oauthToken' = oauthTokenFromEnv
          /\ isOAuthMode' = (oauthTokenFromEnv # NoToken)
          /\ call' = [Idle("restart") EXCEPT
                        !.reads = IF cacheData.kind # "absent" /\ ~Parses(cacheData)
                                    THEN <<readCache>>
                                    ELSE <<readCache, readSelected>>]
  /\ accessToken' = NoToken
  /\ tokenExpiry' = NoExpiry
  /\ scopes' = buildScopesFromEndpoints(endpoints, FALSE)
  /\ UNCHANGED <<endpoints, pending, phase, vault, files>>

RestartNext ==
  \/ LoadTokenCache
  \/ AcquireTokenByDeviceCode
  \/ \E accountId \in AccountIds : RemoveAccount(accountId)
  \/ Restart

RestartSpec == Init /\ [][RestartNext]_vars

----------------------------------------------------------------------------
(* selectAccount and removeAccount as coroutines: they suspend at the vault
   write of saveSelectedAccount *)

\* accounts A and B have signed in and one of them was selected, every vault
\* write having succeeded
SelectInit ==
  /\ phase = "ready"
  /\ endpoints = Endpoints
  /\ pending = <<>>
  /\ accounts = <<"A", "B">>
  /\ accessToken = NoToken
  /\ tokenExpiry = NoExpiry
  /\ scopes = buildScopesFromEndpoints(endpoints, FALSE)
  /\ oauthToken = NoToken
  /\ isOAuthMode = FALSE
  /\ files \in InitFiles
  /\ \E accountId \in AccountIds :
       /\ selectedAccountId = accountId
       /\ vault = (TOKEN_CACHE_ACCOUNT :> serialize(accounts))
                     @@ (SELECTED_ACCOUNT_KEY :> JSONstringify(accountId))
       /\ call = [Idle("selectAccount") EXCEPT
                    !.arg = accountId, !.ret = "true",
                    !.writes = <<Write(SELECTED_ACCOUNT_KEY,
                                       JSONstringify(accountId), TRUE)>>]

\* a call suspended in saveSelectedAccount: its argument and its vault write
SaveRequest(arg, id) ==
  [arg |-> arg, write |-> Write(SELECTED_ACCOUNT_KEY, JSONstringify(id), TRUE)]

\* lines 476-486 and 195-198: selectAccount up to the await on
\* keytar.setPassword inside saveSelectedAccount
SelectAccountCall(accountId) ==
  /\ phase = "ready"
  /\ Len(pending) < MaxPending
  /\ LET c == [Idle("selectAccount") EXCEPT !.arg = accountId]
     IN IF FindAccount(accountId) = NULL
          THEN /\ call' = [c EXCEPT !.ret = "false"]
               /\ UNCHANGED <<selectedAccountId, pending>>
          ELSE /\ selectedAccountId' = accountId
               /\ pending' = SuspendOn("selectAccount",
                                       SaveRequest(accountId, accountId))
               /\ call' = [c EXCEPT !.ret = "pending"]
  /\ UNCHANGED <<endpoints, phase, accounts, accessToken, tokenExpiry, oauthToken,
                 isOAuthMode, scopes, vault, files>>

\* lines 518-533 and 195-198: removeAccount up to the await on
\* keytar.setPassword inside saveSelectedAccount, or to its end when the
\* account is not the selected one
RemoveAccountCall(accountId) ==
  /\ phase = "ready"
  /\ Len(pending) < MaxPending
  /\ LET c == [Idle("removeAccount") EXCEPT !.arg = accountId]
     IN IF FindAccount(accountId) = NULL
          THEN /\ call' = [c EXCEPT !.ret = "false"]
               /\ UNCHANGED <<accounts, selectedAccountId, pending>>
          ELSE /\ accounts' = DropAccount(accounts, accountId)
               /\ IF RemovalClears(accountId)
                    THEN /\ selectedAccountId' = NULL
                         /\ pending' = SuspendOn("removeAccount",
                                                 SaveRequest(accountId, NULL))
                         /\ call' = [c EXCEPT !.ret = "pending"]
                    ELSE /\ call' = [c EXCEPT !.ret = "true"]
                         /\ UNCHANGED <<selectedAccountId, pending>>
  /\ UNCHANGED <<endpoints, phase, accessToken, tokenExpiry, oauthToken,
                 isOAuthMode, scopes, vault, files>>

\* keytar completes the write of the i-th suspended call; the writes in
\* flight complete in any order
KeytarSettles(i) ==
  /\ i \in 1..Len(pending)
  /\ pending[i].op \in {"selectAccount", "removeAccount"}
  /\ ~pending[i].settled
  /\ vault' = [vault EXCEPT
                 ![pending[i].request.write.key] = pending[i].request.write.data]
  /\ pending' = [pending EXCEPT ![i].settled = TRUE]
  /\ call' = Idle("keytar")
  /\ UNCHANGED <<endpoints, phase, accounts, accessToken, tokenExpiry, oauthToken,
                 isOAuthMode, selectedAccountId, scopes, files>>

\* lines 488-493 and 534-539: selectAccount and removeAccount after the save
SaveResume(i) ==
  /\ i \in 1..Len(pending)
  /\ pending[i].op \in {"selectAccount", "removeAccount"}
  /\ pending[i].settled
  /\ accessToken' = NoToken
  /\ tokenExpiry' = NoExpiry
  /\ pending' = DropPending(i)
  /\ call' = [Idle(pending[i].op) EXCEPT
                !.arg = pending[i].request.arg, !.ret = "true",
                !.writes = <<pending[i].request.write>>]
  /\ UNCHANGED <<endpoints, phase, accounts, oauthToken, isOAuthMode,
                 selectedAccountId, scopes, vault, files>>

SelectNext ==
  \/ \E accountId \in AccountIds \cup {UnknownId} : SelectAccountCall(accountId)
  \/ \E accountId \in AccountIds \cup {UnknownId} : RemoveAccountCall(accountId)
  \/ \E i \in 1..MaxPending : KeytarSettles(i)
  \/ \E i \in 1..MaxPending : SaveResume(i)

SelectSpec == SelectInit /\ [][SelectNext]_vars

----------------------------------------------------------------------------
(* Claims *)

\* the instance is outside passthrough mode
OutsidePassthrough == ~(isOAuthMode /\ oauthToken # NoToken /\ oauthToken # EmptyToken)

\* C1: once a token has been injected (isOAuthMode), every getToken call
\* returns exactly the injected token and issues no request to the provider.
C1_InjectedTokenAlwaysReturned ==
  (call.op = "getToken" /\ isOAuthMode)
    => /\ call.ret = "token"
       /\ call.token = oauthToken
       /\ call.silent = <<>>
       /\ call.device = <<>>

\* C2: outside passthrough mode, with a cached token whose expiry is after the
\* instant the call reads: getToken(false) returns the cached token and issues
\* no request; getToken(true) issues one silent request for the current
\* account and returns and caches what the provider answers.
C2_CachedOrForcedRefresh ==
  [][ (/\ call'.op = "getToken"
       /\ OutsidePassthrough
       /\ accessToken # NoToken
       /\ call'.now \in Clock
       /\ tokenExpiry > call'.now)
      => IF ~call'.force
           THEN /\ call'.ret = "token"
                /\ call'.token = accessToken
                /\ call'.silent = <<>>
                /\ UNCHANGED <<accessToken, tokenExpiry>>
           ELSE /\ getCurrentAccount # NULL
                /\ call'.silent = <<Request(getCurrentAccount, scopes)>>
                /\ call'.resp.ok
                     => /\ call'.ret = "token"
                        /\ call'.token = call'.resp.accessToken
                        /\ accessToken' = call'.resp.accessToken
                        /\ tokenExpiry' = call'.resp.expiresOn ]_vars

\* C2 restricted to the states where an account is listed
C2_WhenAnAccountIsListed ==
  [][ (/\ call'.op = "getToken"
       /\ OutsidePassthrough
       /\ accessToken # NoToken
       /\ call'.now \in Clock
       /\ tokenExpiry > call'.now
       /\ Len(accounts) > 0)
      => IF ~call'.force
           THEN /\ call'.ret = "token"
                /\ call'.token = accessToken
                /\ call'.silent = <<>>
                /\ UNCHANGED <<accessToken, tokenExpiry>>
           ELSE /\ getCurrentAccount # NULL
                /\ call'.silent = <<Request(getCurrentAccount, scopes)>>
                /\ call'.resp.ok
                     => /\ call'.ret = "token"
                        /\ call'.token = call'.resp.accessToken
                        /\ accessToken' = call'.resp.accessToken
                        /\ tokenExpiry' = call'.resp.expiresOn ]_vars

\* C3: a step that changes the selected account leaves no token cached but one
\* issued by that same step, and a removeAccount that removes the account the
\* cached token was issued for clears the token.
C3_TokenClearedOnChangeOrRemoval ==
  [][ /\ (selectedAccountId' # selectedAccountId /\ accessToken # NoToken)
          => \/ accessToken' = NoToken
             \/ (call'.resp.ok /\ accessToken' = call'.resp.accessToken)
      /\ (/\ call'.op = "removeAccount"
          /\ call'.ret = "true"
          /\ accessToken # NoToken
          /\ accessToken.owner = call'.arg)
          => accessToken' = NoToken ]_vars

\* a save of the selected-account pointer: handed to the vault, which holds it
\* afterwards if it accepted the write
PointerSaved(w, id) ==
  /\ w.key = SELECTED_ACCOUNT_KEY
  /\ w.data = [kind |-> "json", accts |-> <<>>, accountId |-> id]
  /\ w.ok => vault'[SELECTED_ACCOUNT_KEY] = w.data

\* C4 as stated: selectAccount(B) of a listed B returns true, B is then the
\* current account, no token stays cached, and the getToken that follows
\* issues a silent request for B.
C4_SelectThenFreshAcquisition ==
  [][ /\ (call'.op = "selectAccount" /\ call'.arg \in Range(accounts))
          => /\ call'.ret = "true"
             /\ getCurrentAccount' = call'.arg
             /\ accessToken' = NoToken
      /\ (call.op = "selectAccount" /\ call.ret = "true" /\ call'.op = "getToken")
          => /\ Len(call'.silent) = 1
             /\ call'.silent[1].account = call.arg ]_vars

\* C4 amended: the same, the following getToken being one made outside
\* passthrough mode.
C4_SelectThenFreshAcquisitionOutsidePassthrough ==
  [][ /\ (call'.op = "selectAccount" /\ call'.arg \in Range(accounts))
          => /\ call'.ret = "true"
             /\ getCurrentAccount' = call'.arg
             /\ accessToken' = NoToken
      /\ (/\ call.op = "selectAccount" /\ call.ret = "true"
          /\ call'.op = "getToken" /\ OutsidePassthrough)
          => /\ Len(call'.silent) = 1
             /\ call'.silent[1].account = call.arg ]_vars

\* the second listed account was selected: it is current and no token is cached
C4_Witness ==
  /\ call.op = "selectAccount" /\ call.ret = "true"
  /\ Len(accounts) = 2 /\ call.arg = accounts[2]
  /\ selectedAccountId = call.arg
  /\ accessToken = NoToken
  /\ OutsidePassthrough

\* C5: selectAccount of an id that is not listed returns false and leaves the
\* pointer, the token, the expiry and both persisted records as they were.
C5_SelectUnknownChangesNothing ==
  [][ (call'.op = "selectAccount" /\ call'.arg \notin Range(accounts))
      => /\ call'.ret = "false"
         /\ call'.writes = <<>>
         /\ UNCHANGED <<selectedAccountId, accessToken, tokenExpiry, vault, files>>
    ]_vars

\* an unknown id was refused while a selection and a token were held
C5_Witness ==
  /\ call.op = "selectAccount" /\ call.ret = "false"
  /\ call.arg \notin Range(accounts)
  /\ selectedAccountId # NULL /\ selectedAccountId # call.arg
  /\ accessToken # NoToken
  /\ vault[SELECTED_ACCOUNT_KEY].kind = "json"

\* C6: removeAccount(B) of the selected, listed account B returns true, takes B
\* off the list, clears the pointer and saves the cleared pointer; the current
\* account is then the first remaining one, or none.
C6_RemoveSelectedClearsSelection ==
  [][ (/\ call'.op = "removeAccount"
       /\ call'.arg = selectedAccountId
       /\ call'.arg \in Range(accounts))
      => /\ call'.ret = "true"
         /\ accounts' = SelectSeq(accounts, LAMBDA a : a # call'.arg)
         /\ selectedAccountId' = NULL
         /\ Len(call'.writes) = 1
         /\ PointerSaved(call'.writes[1], NULL)
         /\ getCurrentAccount' = IF Len(accounts') = 0 THEN NULL ELSE accounts'[1]
    ]_vars

\* the selected account was removed, another one remains and is now current
C6_Witness ==
  /\ call.op = "removeAccount" /\ call.ret = "true"
  /\ Len(call.writes) = 1
  /\ selectedAccountId = NULL
  /\ Len(accounts) = 1
  /\ getCurrentAccount = accounts[1]
  /\ vault[SELECTED_ACCOUNT_KEY] = [kind |-> "json", accts |-> <<>>, accountId |-> NULL]

\* C7: getCurrentAccount is the selected account when the pointer names a
\* listed account, else the first listed account, and none exactly when no
\* account is listed; it is never an account that is not listed.
C7_CurrentAccountResolution ==
  /\ (selectedAccountId # NULL /\ selectedAccountId \in Range(accounts))
       => getCurrentAccount = selectedAccountId
  /\ ((selectedAccountId = NULL \/ selectedAccountId \notin Range(accounts))
        /\ Len(accounts) > 0)
       => getCurrentAccount = accounts[1]
  /\ getCurrentAccount = NULL <=> Len(accounts) = 0
  /\ getCurrentAccount # NULL => getCurrentAccount \in Range(accounts)

\* a stale pointer: it names an account that is not listed, and one is listed
C7_Witness ==
  /\ phase = "ready"
  /\ selectedAccountId # NULL
  /\ selectedAccountId \notin Range(accounts)
  /\ Len(accounts) > 0
  /\ getCurrentAccount = accounts[1]

\* C8: outside passthrough mode and without a usable cached token, getToken
\* with no account listed raises the no-account error, issues no request and
\* leaves token, expiry and selection as they were.
C8_NoAccountFails ==
  [][ (/\ call'.op = "getToken"
       /\ OutsidePassthrough
       /\ ~(accessToken # NoToken /\ tokenExpiry > call'.now /\ ~call'.force)
       /\ Len(accounts) = 0)
      => /\ call'.ret = "throw"
         /\ call'.err = "No valid token found"
         /\ call'.silent = <<>>
         /\ call'.device = <<>>
         /\ UNCHANGED <<accessToken, tokenExpiry, selectedAccountId>> ]_vars

\* getToken failed for want of an account, a stale pointer being set
C8_Witness ==
  /\ call.op = "getToken" /\ call.ret = "throw"
  /\ call.err = "No valid token found"
  /\ OutsidePassthrough
  /\ Len(accounts) = 0
  /\ selectedAccountId # NULL

\* C9: when the silent acquisition of a getToken call fails, the call raises
\* the silent-acquisition error after that one request, starts no device-code
\* flow and leaves token, expiry and selection as they were.
C9_SilentFailureSurfacedOnce ==
  [][ (call'.op = "getToken" /\ Len(call'.silent) > 0 /\ ~call'.resp.ok)
      => /\ call'.ret = "throw"
         /\ call'.err = "Silent token acquisition failed"
         /\ Len(call'.silent) = 1
         /\ call'.device = <<>>
         /\ UNCHANGED <<accessToken, tokenExpiry, selectedAccountId>> ]_vars

\* a forced refresh failed while a token was cached, and the token is kept
C9_Witness ==
  /\ call.op = "getToken" /\ call.ret = "throw"
  /\ call.err = "Silent token acquisition failed"
  /\ call.force
  /\ accessToken # NoToken
  /\ tokenExpiry # NoExpiry

\* C10: a successful acquireTokenByDeviceCode caches the token and expiry it
\* got, returns the token, saves the token-cache blob, and sets and saves the
\* pointer to the account that signed in exactly when none was selected.
C10_DeviceCodeSuccess ==
  [][ (call'.op = "acquireTokenByDeviceCode" /\ call'.resp.ok)
      => LET w == call'.writes
             blob == w[Len(w)]
         IN /\ accessToken' = call'.resp.accessToken
            /\ tokenExpiry' = call'.resp.expiresOn
            /\ call'.ret = "token"
            /\ call'.token = call'.resp.accessToken
            /\ call'.resp.account \in Range(accounts')
            /\ Len(w) >= 1
            /\ blob.key = TOKEN_CACHE_ACCOUNT
            /\ blob.data = [kind |-> "cache", accts |-> accounts', accountId |-> NULL]
            /\ blob.ok => vault'[TOKEN_CACHE_ACCOUNT] = blob.data
            /\ IF selectedAccountId = NULL
                 THEN /\ selectedAccountId' = call'.resp.account
                      /\ Len(w) = 2
                      /\ PointerSaved(w[1], call'.resp.account)
                 ELSE /\ selectedAccountId' = selectedAccountId
                      /\ Len(w) = 1
                      /\ blob.ok => vault'[SELECTED_ACCOUNT_KEY]
                                      = vault[SELECTED_ACCOUNT_KEY] ]_vars

\* a login as another account than the selected one: the selection is kept
C10_Witness ==
  /\ call.op = "acquireTokenByDeviceCode" /\ call.ret = "token"
  /\ selectedAccountId # NULL
  /\ call.resp.account # selectedAccountId
  /\ accessToken = call.resp.accessToken
  /\ Len(call.writes) = 1
  /\ vault[TOKEN_CACHE_ACCOUNT].kind = "cache"

\* C11: when the device-code exchange fails, acquireTokenByDeviceCode raises
\* and expandToWorkAccountScopes returns false, and the token, the expiry, the
\* pointer, the working scope set and both persisted records (vault and
\* files) are what they were before the call.
C11_FailedExchangeChangesNothing ==
  [][ (/\ call'.op \in {"acquireTokenByDeviceCode", "expandToWorkAccountScopes"}
       /\ ~call'.resp.ok)
      => /\ call'.op = "acquireTokenByDeviceCode" => call'.ret = "throw"
         /\ call'.op = "expandToWorkAccountScopes" => call'.ret = "false"
         /\ call'.writes = <<>>
         /\ UNCHANGED <<accessToken, tokenExpiry, selectedAccountId, scopes,
                        vault, files, accounts>> ]_vars

\* a scope expansion failed while a token, a selection and both vault records
\* were held
C11_Witness ==
  /\ call.op = "expandToWorkAccountScopes" /\ call.ret = "false"
  /\ ~call.resp.ok
  /\ accessToken # NoToken
  /\ selectedAccountId # NULL
  /\ vault[TOKEN_CACHE_ACCOUNT].kind = "cache"
  /\ vault[SELECTED_ACCOUNT_KEY].kind = "json"

\* the scopes that appear on some entry of the catalog, and on no entry that
\* is not flagged requiresWorkAccount
WorkOnlyScopes(catalog) ==
  { s \in UNION { catalog[i].scopes : i \in 1..Len(catalog) } :
      \A i \in 1..Len(catalog) : s \in catalog[i].scopes => catalog[i].requiresWorkAccount }

\* C12: for every catalog, buildScopesFromEndpoints(false) contains no scope
\* that appears only on entries flagged requiresWorkAccount.
C12_NoWorkOnlyScopeInBaseSet ==
  (call.op = "buildScopesFromEndpoints" /\ ~call.include)
    => scopes \cap WorkOnlyScopes(endpoints) = {}

\* C13: for every catalog and either flag, the resolved set never holds a
\* higher scope of the table together with all the lower scopes it subsumes,
\* and a catalog whose collected scopes are Mail.Read and Mail.ReadWrite
\* resolves to exactly {Mail.ReadWrite}.
C13_NeverHigherWithAllLower ==
  call.op = "buildScopesFromEndpoints"
    => /\ \A k \in 1..Len(SCOPE_HIERARCHY) :
            ~(/\ SCOPE_HIERARCHY[k].higher \in scopes
              /\ SCOPE_HIERARCHY[k].lower \subseteq scopes)
       /\ CollectScopes(endpoints, call.include) = {"Mail.Read", "Mail.ReadWrite"}
            => scopes = {"Mail.ReadWrite"}

\* the catalog of the scenario, resolved without the work-account entries
C13_Witness ==
  /\ call.op = "buildScopesFromEndpoints" /\ ~call.include
  /\ endpoints = << Endpoint({"Mail.Read"}, FALSE), Endpoint({"Mail.ReadWrite"}, FALSE) >>
  /\ scopes = {"Mail.ReadWrite"}

\* the fallback file of a vault key
FallbackPathOf(key) ==
  IF key = TOKEN_CACHE_ACCOUNT THEN FALLBACK_PATH ELSE SELECTED_ACCOUNT_PATH

\* C14: when a vault write throws during a save made by selectAccount,
\* removeAccount, acquireTokenByDeviceCode or expandToWorkAccountScopes, the
\* fallback file of that key then holds exactly the data handed to the vault
\* and the operation does not raise.
C14_FailedVaultWriteFallsBackToFile ==
  [][ (call'.op \in {"selectAccount", "removeAccount", "acquireTokenByDeviceCode",
                     "expandToWorkAccountScopes"})
      => \A i \in 1..Len(call'.writes) :
           ~call'.writes[i].ok
             => /\ call'.ret # "throw"
                /\ files'[FallbackPathOf(call'.writes[i].key)] = call'.writes[i].data
    ]_vars

\* C15: logout returns true from every state, and afterwards both vault keys
\* and both fallback files are absent, the token, the expiry and the pointer
\* are cleared, no account is listed and getCurrentAccount gives none.
C15_LogoutClearsEverything ==
  [][ call'.op = "logout"
      => /\ call'.ret = "true"
         /\ \A k \in DOMAIN vault' : vault'[k] = Absent
         /\ \A f \in DOMAIN files' : files'[f] = Absent
         /\ accessToken' = NoToken
         /\ tokenExpiry' = NoExpiry
         /\ selectedAccountId' = NULL
         /\ accounts' = <<>>
         /\ getCurrentAccount' = NULL ]_vars

\* the scopes of the catalog's entries flagged requiresWorkAccount
WorkAccountScopes(catalog) ==
  UNION { catalog[i].scopes :
            i \in { j \in 1..Len(catalog) : catalog[j].requiresWorkAccount } }

\* C16: hasWorkAccountPermissions returns a boolean and never raises; with no
\* current account it returns false and asks the provider nothing; otherwise
\* it issues one silent request for the current account and exactly one
\* work-account scope and returns true exactly when the provider grants it;
\* the token, expiry, pointer, scope set and persisted records are unchanged.
C16_ProbeIsReadOnly ==
  [][ call'.op = "hasWorkAccountPermissions"
      => /\ call'.ret \in {"true", "false"}
         /\ getCurrentAccount = NULL
              => call'.ret = "false" /\ call'.silent = <<>>
         /\ getCurrentAccount # NULL
              => /\ Len(call'.silent) = 1
                 /\ call'.silent[1].account = getCurrentAccount
                 /\ Cardinality(call'.silent[1].scopes) = 1
                 /\ call'.silent[1].scopes \subseteq WorkAccountScopes(endpoints)
                 /\ call'.ret = "true" <=> call'.resp.ok
         /\ call'.device = <<>>
         /\ call'.writes = <<>>
         /\ UNCHANGED <<accessToken, tokenExpiry, selectedAccountId, scopes,
                        vault, files, accounts>> ]_vars

\* the probe was refused for the selected account while a token was cached
C16_Witness ==
  /\ call.op = "hasWorkAccountPermissions" /\ call.ret = "false"
  /\ Len(call.silent) = 1
  /\ call.silent[1].account = selectedAccountId
  /\ ~call.resp.ok
  /\ accessToken # NoToken
  /\ vault[TOKEN_CACHE_ACCOUNT].kind = "cache"

\* C17: a successful expandToWorkAccountScopes returns true, makes the full
\* scope set the working set, caches the token and expiry it got, saves the
\* token-cache blob, and selects the account that signed in exactly when no
\* account was selected, leaving an existing selection as it was.
C17_ExpandSuccessKeepsSelection ==
  [][ (call'.op = "expandToWorkAccountScopes" /\ call'.resp.ok)
      => LET w == call'.writes
             blob == w[Len(w)]
         IN /\ call'.ret = "true"
            /\ scopes' = buildScopesFromEndpoints(endpoints, TRUE)
            /\ accessToken' = call'.resp.accessToken
            /\ tokenExpiry' = call'.resp.expiresOn
            /\ Len(w) >= 1
            /\ blob.key = TOKEN_CACHE_ACCOUNT
            /\ blob.data = [kind |-> "cache", accts |-> accounts', accountId |-> NULL]
            /\ selectedAccountId' = IF selectedAccountId = NULL
                                      THEN call'.resp.account
                                      ELSE selectedAccountId ]_vars

\* C18: a getToken call (a step that resumes no suspended call) that finds no
\* usable cached token and has a current account issues a silent request of its own whatever requests are already
\* outstanding, so two outstanding silent requests of two getToken calls for
\* the same account are reachable.
C18_EveryCallIssuesItsOwnRequest ==
  [][ (/\ call'.op = "getToken"
       /\ Len(pending') >= Len(pending)
       /\ OutsidePassthrough
       /\ ~CachedTokenUsable(call'.force, call'.now)
       /\ getCurrentAccount # NULL)
      => /\ call'.ret = "pending"
         /\ pending' = Append(pending,
                               [op |-> "getToken",
                                request |-> Request(getCurrentAccount, scopes),
                                settled |-> FALSE, resp |-> NoResponse]) ]_vars

\* two getToken calls are suspended on two silent requests for one account,
\* the later one having found the cached token expired
C18_Witness ==
  /\ Len(pending) = 2
  /\ accessToken # NoToken /\ ~call.force /\ call.now >= tokenExpiry
  /\ pending[1].op = "getToken" /\ pending[2].op = "getToken"
  /\ ~pending[1].settled /\ ~pending[2].settled
  /\ pending[1].request = pending[2].request
  /\ call.op = "getToken" /\ call.ret = "pending"

\* some call is suspended in a device-code wait
DeviceCodeWaitPending ==
  \E i \in 1..Len(pending) :
    pending[i].op \in {"acquireTokenByDeviceCode", "expandToWorkAccountScopes"}

\* C19: every pending device-code wait eventually ends.
C19_DeviceCodeWaitEnds == DeviceCodeWaitPending ~> ~DeviceCodeWaitPending

\* C20: for both keys a load returns what the vault holds whenever the vault
\* answers with a record, and reads the fallback file only when the vault
\* failed or held nothing; a save whose vault write succeeded leaves the
\* fallback file as it was, and a fallback file changes only in a call one of
\* whose vault writes failed.
C20_VaultAlwaysFirst ==
  [][ /\ call'.op = "loadTokenCache"
          => \A i \in 1..Len(call'.reads) :
               LET r == call'.reads[i]
                   stored == vault[r.key]
               IN /\ (r.ok /\ stored.kind # "absent")
                       => ~r.file /\ r.data = stored
                  /\ r.file
                       => /\ ~r.ok \/ stored.kind = "absent"
                          /\ r.data = files[FallbackPathOf(r.key)]
                  /\ (r.key = TOKEN_CACHE_ACCOUNT /\ r.data.kind = "cache")
                       => accounts' = r.data.accts
                  /\ (r.key = SELECTED_ACCOUNT_KEY /\ r.data.kind = "json")
                       => selectedAccountId' = r.data.accountId
      /\ \A i \in 1..Len(call'.writes) :
           call'.writes[i].ok
             => files'[FallbackPathOf(call'.writes[i].key)]
                  = files[FallbackPathOf(call'.writes[i].key)]
      /\ files' # files
           => \E i \in 1..Len(call'.writes) : ~call'.writes[i].ok ]_vars

\* the vault failed on the pointer it holds, so the pointer of the file was
\* loaded, while the token cache came from the vault although a file exists
C20_Witness ==
  /\ call.op = "loadTokenCache"
  /\ Len(call.reads) = 2
  /\ call.reads[1].ok /\ ~call.reads[1].file
  /\ vault[TOKEN_CACHE_ACCOUNT] = [kind |-> "cache", accts |-> <<"A", "B">>,
                                     accountId |-> NULL]
  /\ files[FALLBACK_PATH] = [kind |-> "cache", accts |-> <<"A">>, accountId |-> NULL]
  /\ accounts = <<"A", "B">>
  /\ ~call.reads[2].ok /\ call.reads[2].file
  /\ vault[SELECTED_ACCOUNT_KEY].accountId = "A"
  /\ files[SELECTED_ACCOUNT_PATH].accountId = "B"
  /\ selectedAccountId = "B"

\* C21: when a save made by selectAccount, removeAccount,
\* acquireTokenByDeviceCode or expandToWorkAccountScopes reaches neither the
\* vault nor the fallback file, the call still reports success, the in-memory
\* state is updated as if the save had worked, and the record that was to be
\* replaced is left as it was.
C21_FailedSaveStillSucceeds ==
  [][ (/\ call'.op \in {"selectAccount", "removeAccount",
                         "acquireTokenByDeviceCode", "expandToWorkAccountScopes"}
       /\ \E i \in 1..Len(call'.writes) :
            /\ ~call'.writes[i].ok
            /\ files'[FallbackPathOf(call'.writes[i].key)] # call'.writes[i].data)
      => /\ call'.err = ""
         /\ call'.op = "selectAccount"
              => /\ call'.ret = "true"
                 /\ selectedAccountId' = call'.arg
                 /\ accessToken' = NoToken
         /\ call'.op = "removeAccount"
              => /\ call'.ret = "true"
                 /\ selectedAccountId' = NULL
                 /\ call'.arg \notin Range(accounts')
         /\ call'.op = "acquireTokenByDeviceCode"
              => /\ call'.ret = "token"
                 /\ accessToken' = call'.resp.accessToken
         /\ call'.op = "expandToWorkAccountScopes"
              => /\ call'.ret = "true"
                 /\ accessToken' = call'.resp.accessToken
                 /\ selectedAccountId' = call'.resp.account
         /\ \A i \in 1..Len(call'.writes) :
              ~call'.writes[i].ok
                => vault'[call'.writes[i].key] = vault[call'.writes[i].key] ]_vars

\* selectAccount reported success although its save reached no store: the
\* selection in memory is not the persisted one
C21_Witness ==
  /\ call.op = "selectAccount" /\ call.ret = "true"
  /\ Len(call.writes) = 1 /\ ~call.writes[1].ok
  /\ selectedAccountId = call.arg
  /\ vault[SELECTED_ACCOUNT_KEY].kind = "json"
  /\ vault[SELECTED_ACCOUNT_KEY].accountId # selectedAccountId
  /\ files[SELECTED_ACCOUNT_PATH].kind = "absent"

\* C22: loadTokenCache never raises; when the token-cache blob it reads
\* cannot be deserialized no account is listed afterwards, and a persisted
\* pointer that parses is still loaded: with the same readable pointer in the
\* vault and in the file, that pointer is the selection after the load.
C22_PointerLoadedDespiteBadBlob ==
  [][ call'.op = "loadTokenCache"
      => /\ call'.ret = "void"
         /\ call'.err = ""
         /\ call'.reads[1].data.kind = "corrupt"
              => /\ accounts' = <<>>
                 /\ (/\ vault[SELECTED_ACCOUNT_KEY].kind = "json"
                     /\ files[SELECTED_ACCOUNT_PATH] = vault[SELECTED_ACCOUNT_KEY])
                      => selectedAccountId' = vault[SELECTED_ACCOUNT_KEY].accountId
    ]_vars

\* C27: for every catalog and either flag, every scope of the resolved set is
\* declared by an entry the filter includes.
C27_OnlyRequestedScopes ==
  call.op = "buildScopesFromEndpoints"
    => scopes \subseteq CollectScopes(endpoints, call.include)

\* C23: outside passthrough mode, the operations being run one at a time,
\* a token that getToken returns from the in-memory cache was issued for the
\* account that getCurrentAccount gives in that state.
C23_CachedTokenIsCurrentAccounts ==
  [][ (/\ call'.op = "getToken"
       /\ OutsidePassthrough
       /\ call'.ret = "token"
       /\ call'.silent = <<>>)
      => call'.token.owner = getCurrentAccount ]_vars

\* C24: when a getToken call resumes with the token it asked for and no call
\* remains suspended, the token then cached was issued for the account that
\* is current at that moment, whatever selectAccount or removeAccount ran
\* while the call was suspended.
C24_ResumedTokenIsCurrentAccounts ==
  [][ (/\ call'.op = "getToken"
       /\ Len(pending') < Len(pending)
       /\ pending' = <<>>
       /\ call'.ret = "token")
      => /\ accessToken' # NoToken
         /\ accessToken'.owner = getCurrentAccount' ]_vars

\* C25: when removeAccount(X) has returned true with its vault writes
\* succeeding and the process restarts next, its vault reads succeeding, the
\* new instance does not list X.
C25_RemovalSurvivesRestart ==
  [][ (/\ call.op = "removeAccount"
       /\ call.ret = "true"
       /\ \A i \in 1..Len(call.writes) : call.writes[i].ok
       /\ call'.op = "restart"
       /\ \A i \in 1..Len(call'.reads) : call'.reads[i].ok)
      => call.arg \notin Range(accounts') ]_vars

\* C26: every vault write succeeding, whenever no call is in flight the
\* pointer the vault holds is the in-memory selection (absent or null when
\* nothing is selected), also after selectAccount and removeAccount calls
\* have overlapped and their vault writes have completed in any order.
C26_PersistedPointerIsSelection ==
  (phase = "ready" /\ pending = <<>>)
    => IF selectedAccountId = NULL
         THEN vault[SELECTED_ACCOUNT_KEY]
                \in {Absent, [kind |-> "json", accts |-> <<>>, accountId |-> NULL]}
         ELSE vault[SELECTED_ACCOUNT_KEY]
                = [kind |-> "json", accts |-> <<>>, accountId |-> selectedAccountId]
====
